---- MODULE Spec2Model ----
(***************************************************************************)
(* fix_auth.py: a patch script that reads src/components/AuthenticatedApp  *)
(* .tsx, applies eight literal str.replace substitutions in list order and *)
(* writes the text back to the same path, then prints a confirmation.      *)
(*                                                                         *)
(* A text is a sequence of one-character strings, so that substring search *)
(* and replacement are computed position by position.  The file holds the  *)
(* stored characters; the script holds the text that the text-mode read    *)
(* makes of them.  Documents are ASCII, and the line separator is that of  *)
(* a POSIX platform.                                                       *)
(***************************************************************************)
EXTENDS Integers, Sequences, FiniteSets, TLC

VARIABLES
    fs,         \* the target path: [exists |-> BOOLEAN, data |-> stored characters]
    pc,         \* position of the script: start, loop, open_w, write, print, done, failed
    content,    \* the script's variable `content`
    i,          \* 1-based index of the rule the for loop applies next
    applied,    \* the rules applied so far by this run
    stdout,     \* lines printed by this run
    err,        \* the exception that ended this run, or "none"
    run,        \* number of the current invocation of the script
    orig,       \* history: the value of fs when this run was invoked
    readDoc,    \* history: the text this run read at line 5
    extWrites,  \* number of writes done by the external writer
    extData,    \* history: the text last written by the external writer
    extDuringWrite, \* history: the external writer wrote while the script held the file open for writing
    lastWriter  \* history: "none", "script" or "external"

vars == <<fs, pc, content, i, applied, stdout, err, run, orig, readDoc,
          extWrites, extData, extDuringWrite, lastWriter>>

-----------------------------------------------------------------------------
(* The literals of the script. *)

GetUserDisplayName ==
    <<"a","u","t","h","S","e","r","v","i","c","e",".","g","e","t","U","s","e","r","D","i","s","p","l","a","y","N","a","m","e","(",")">>
GetUserRoleDisplayName ==
    <<"a","u","t","h","S","e","r","v","i","c","e",".","g","e","t","U","s","e","r","R","o","l","e","D","i","s","p","l","a","y","N","a","m","e","(",")">>
HasPermissionCitizenCreate ==
    <<"a","u","t","h","S","e","r","v","i","c","e",".","h","a","s","P","e","r","m","i","s","s","i","o","n","(","'","c","i","t","i","z","e","n",".","c","r","e","a","t","e","'",")">>
HasRoleSystemAdministrator ==
    <<"a","u","t","h","S","e","r","v","i","c","e",".","h","a","s","R","o","l","e","(","'","s","y","s","t","e","m","_","a","d","m","i","n","i","s","t","r","a","t","o","r","'",")">>
HasRoleRegistrationOfficer ==
    <<"a","u","t","h","S","e","r","v","i","c","e",".","h","a","s","R","o","l","e","(","'","r","e","g","i","s","t","r","a","t","i","o","n","_","o","f","f","i","c","e","r","'",")">>
HasRoleFieldEnumerator ==
    <<"a","u","t","h","S","e","r","v","i","c","e",".","h","a","s","R","o","l","e","(","'","f","i","e","l","d","_","e","n","u","m","e","r","a","t","o","r","'",")">>
HasRoleElectoralCommissioner ==
    <<"a","u","t","h","S","e","r","v","i","c","e",".","h","a","s","R","o","l","e","(","'","e","l","e","c","t","o","r","a","l","_","c","o","m","m","i","s","s","i","o","n","e","r","'",")">>
HasRoleAdmin ==
    <<"a","u","t","h","S","e","r","v","i","c","e",".","h","a","s","R","o","l","e","(","'","a","d","m","i","n","'",")">>

\* '"System Administrator"' and 'true', the two replacement literals
SystemAdministratorLit ==
    <<"\"","S","y","s","t","e","m"," ","A","d","m","i","n","i","s","t","r","a","t","o","r","\"">>
TrueLit == <<"t","r","u","e">>

\* A rule list in which 'admin' is rewritten to the Python spelling True.
replacementsPyTrue ==
    << <<GetUserDisplayName, SystemAdministratorLit>>,
       <<GetUserRoleDisplayName, SystemAdministratorLit>>,
       <<HasPermissionCitizenCreate, TrueLit>>,
       <<HasRoleSystemAdministrator, TrueLit>>,
       <<HasRoleRegistrationOfficer, TrueLit>>,
       <<HasRoleFieldEnumerator, TrueLit>>,
       <<HasRoleElectoralCommissioner, TrueLit>>,
       <<HasRoleAdmin, <<"T","r","u","e">> >> >>

\* A rule list in which 'admin' is mapped onto the system_administrator check
\* instead of being replaced by a literal.
replacementsChained ==
    << <<GetUserDisplayName, SystemAdministratorLit>>,
       <<GetUserRoleDisplayName, SystemAdministratorLit>>,
       <<HasPermissionCitizenCreate, TrueLit>>,
       <<HasRoleSystemAdministrator, TrueLit>>,
       <<HasRoleRegistrationOfficer, TrueLit>>,
       <<HasRoleFieldEnumerator, TrueLit>>,
       <<HasRoleElectoralCommissioner, TrueLit>>,
       <<HasRoleAdmin, HasRoleSystemAdministrator>> >>

\* replacements = [ (old, new), ... ]
replacements ==
    << <<GetUserDisplayName, SystemAdministratorLit>>,
       <<GetUserRoleDisplayName, SystemAdministratorLit>>,
       <<HasPermissionCitizenCreate, TrueLit>>,
       <<HasRoleSystemAdministrator, TrueLit>>,
       <<HasRoleRegistrationOfficer, TrueLit>>,
       <<HasRoleFieldEnumerator, TrueLit>>,
       <<HasRoleElectoralCommissioner, TrueLit>>,
       <<HasRoleAdmin, TrueLit>> >>

\* A loop that stops one rule short of the end of the list.
NumRulesShort == Len(replacements) - 1

\* The number of iterations of `for old, new in replacements`
NumRules == Len(replacements)

ConfirmationLine == "Fixed all authService calls for admin access"

-----------------------------------------------------------------------------
(* str.replace(old, new): find the next occurrence from the current        *)
(* position, copy the text before it, emit new, continue after the         *)
(* occurrence; the tail after the last occurrence is copied unchanged.     *)

MatchAt(s, old, p) ==
    /\ p + Len(old) - 1 <= Len(s)
    /\ \A k \in 1..Len(old) : s[p + k - 1] = old[k]

\* str.find(old, start): the least p >= start where old occurs, 0 if none
Find(s, old, start) ==
    LET hits == { p \in start..(Len(s) - Len(old) + 1) : MatchAt(s, old, p) } IN
    IF hits = {} THEN 0 ELSE CHOOSE p \in hits : \A q \in hits : p <= q

RECURSIVE ReplaceFrom(_, _, _, _, _)
ReplaceFrom(s, old, new, pos, acc) ==
    LET p == Find(s, old, pos) IN
    IF p = 0 THEN acc \o SubSeq(s, pos, Len(s))
    ELSE ReplaceFrom(s, old, new, p + Len(old), acc \o SubSeq(s, pos, p - 1) \o new)

\* str.replace(old, new, 1): only the first occurrence is replaced.
ReplaceFirst(s, old, new) ==
    LET p == Find(s, old, 1) IN
    IF p = 0 THEN s
    ELSE SubSeq(s, 1, p - 1) \o new \o SubSeq(s, p + Len(old), Len(s))

\* content.replace(old, new)
Replace(s, old, new) == ReplaceFrom(s, old, new, 1, <<>>)

-----------------------------------------------------------------------------
(* Text mode.  open(path, 'r') reads with universal newlines: "\r\n" and a *)
(* lone "\r" become "\n".  open(path, 'w') writes "\n" as os.linesep.      *)

CR == <<"\r">>
LF == <<"\n">>
CRLF == <<"\r", "\n">>

\* os.linesep
LineSep == LF

\* f.read() of a file opened with open(path, 'r')
DecodeNewlines(b) == Replace(Replace(b, CRLF, LF), CR, LF)

\* what f.write(t) stores in a file opened with open(path, 'w')
EncodeNewlines(t) == IF LineSep = LF THEN t ELSE Replace(t, LF, LineSep)

-----------------------------------------------------------------------------
(* The documents the target file may hold when the script is invoked:      *)
(* concatenations of at most MaxFrags fragments.                           *)

MaxFrags == 2
MaxFragsAnyOrder == 2
MaxRuns == 2
MaxExt == 1

Fragments ==
    { GetUserDisplayName, GetUserRoleDisplayName, HasPermissionCitizenCreate,
      HasRoleSystemAdministrator, HasRoleRegistrationOfficer,
      HasRoleFieldEnumerator, HasRoleElectoralCommissioner, HasRoleAdmin,
      \* a call no rule names
      <<"a","u","t","h","S","e","r","v","i","c","e",".","l","o","g","o","u","t","(",")">>,
      \* the two halves of authService.hasRole('admin')
      <<"a","u","t","h","S","e","r","v","i","c","e",".","h","a","s","R","o","l","e","(","'","a","d">>,
      <<"m","i","n","'",")">>,
      <<"i","f"," ","(">>,
      \* line ends: Windows and POSIX
      CRLF, LF }

RECURSIVE DocsOfFrags(_, _)
DocsOfFrags(F, n) ==
    IF n = 0 THEN { <<>> }
    ELSE LET shorter == DocsOfFrags(F, n - 1) IN
         shorter \cup { d \o f : d \in shorter, f \in F }

Documents == DocsOfFrags(Fragments, MaxFrags)

Missing == [exists |-> FALSE, data |-> <<>>]
File(d) == [exists |-> TRUE, data |-> d]

\* What an external writer may store in the file.
ExtDocuments ==
    { <<"x">>,
      HasRoleAdmin \o <<" ","&","&"," ">> \o GetUserDisplayName \o <<";">> \o LF }

-----------------------------------------------------------------------------
Init ==
    /\ fs \in {Missing} \cup { File(d) : d \in Documents }
    /\ pc = "start"
    /\ content = <<>>
    /\ i = 0
    /\ applied = {}
    /\ stdout = <<>>
    /\ err = "none"
    /\ run = 1
    /\ orig = fs
    /\ readDoc = <<>>
    /\ extWrites = 0
    /\ extData = <<>>
    /\ extDuringWrite = FALSE
    /\ lastWriter = "none"

history == <<run, orig, extWrites, extData, extDuringWrite, lastWriter>>

\* open(path, 'a+'): a missing file is created empty and then read.
OpenReadCreate ==
    /\ pc = "start"
    /\ \E permitted \in BOOLEAN :
         IF permitted
         THEN /\ fs' = [exists |-> TRUE, data |-> fs.data]
              /\ content' = DecodeNewlines(fs.data)
              /\ readDoc' = DecodeNewlines(fs.data)
              /\ i' = 1
              /\ pc' = "loop"
              /\ err' = err
         ELSE /\ pc' = "failed"
              /\ err' = "PermissionError"
              /\ UNCHANGED <<fs, content, i, readDoc>>
    /\ UNCHANGED <<applied, stdout>>
    /\ UNCHANGED history

\* with open(path, 'r') as f: content = f.read()
OpenRead ==
    /\ pc = "start"
    /\ IF ~fs.exists
       THEN /\ pc' = "failed"
            /\ err' = "FileNotFoundError"
            /\ UNCHANGED <<content, i, readDoc>>
       ELSE \E permitted \in BOOLEAN :
              IF permitted
              THEN /\ content' = DecodeNewlines(fs.data)
                   /\ readDoc' = DecodeNewlines(fs.data)
                   /\ i' = 1
                   /\ pc' = "loop"
                   /\ err' = err
              ELSE /\ pc' = "failed"
                   /\ err' = "PermissionError"
                   /\ UNCHANGED <<content, i, readDoc>>
    /\ UNCHANGED <<fs, applied, stdout>>
    /\ UNCHANGED history

\* for old, new in replacements: content = content.replace(old, new)
Transform ==
    /\ pc = "loop"
    /\ i <= NumRules
    /\ content' = Replace(content, replacements[i][1], replacements[i][2])
    /\ applied' = applied \cup {i}
    /\ i' = i + 1
    /\ pc' = IF i >= NumRules THEN "open_w" ELSE "loop"
    /\ UNCHANGED <<fs, stdout, err, readDoc>>
    /\ UNCHANGED history

\* open(path, 'r+'): the file is opened for writing without being truncated.
OpenWriteNoTruncate ==
    /\ pc = "open_w"
    /\ \E permitted \in BOOLEAN :
         IF permitted
         THEN /\ fs' = [exists |-> TRUE, data |-> fs.data]
              /\ pc' = "write"
              /\ err' = err
         ELSE /\ pc' = "failed"
              /\ err' = "PermissionError"
              /\ fs' = fs
    /\ UNCHANGED <<content, i, applied, stdout, readDoc>>
    /\ UNCHANGED history

\* open(path, 'w'): creates or truncates the file, unless opening fails
OpenWrite ==
    /\ pc = "open_w"
    /\ \E permitted \in BOOLEAN :
         IF permitted
         THEN /\ fs' = File(<<>>)
              /\ pc' = "write"
              /\ err' = err
         ELSE /\ pc' = "failed"
              /\ err' = "PermissionError"
              /\ fs' = fs
    /\ UNCHANGED <<content, i, applied, stdout, readDoc>>
    /\ UNCHANGED history

\* How many of the characters c to store may have reached the file when
\* f.write and the close of the with block end: all of them, or a strict
\* prefix (an I/O error).
WriteOutcomes(c) ==
    {Len(c)} \cup ({0, 1, Len(c) \div 2, Len(c) - 1} \cap (0..(Len(c) - 1)))

\* Writing w at offset 0 of a file holding d: bytes of d past Len(w) stay.
Overlay(w, d) == w \o SubSeq(d, Len(w) + 1, Len(d))

\* A write that prints the confirmation before the data is written.
WriteBackPrintFirst ==
    /\ pc = "write"
    /\ stdout' = Append(stdout, ConfirmationLine)
    /\ \E n \in WriteOutcomes(EncodeNewlines(content)) :
         /\ fs' = File(Overlay(SubSeq(EncodeNewlines(content), 1, n), fs.data))
         /\ IF n = Len(EncodeNewlines(content))
            THEN pc' = "done" /\ err' = err
            ELSE pc' = "failed" /\ err' = "OSError"
    /\ lastWriter' = "script"
    /\ UNCHANGED <<content, i, applied, readDoc>>
    /\ UNCHANGED <<run, orig, extWrites, extData, extDuringWrite>>

\* A write that puts the original content back when storing fails.
WriteBackRestore ==
    /\ pc = "write"
    /\ \E n \in WriteOutcomes(EncodeNewlines(content)) :
         IF n = Len(EncodeNewlines(content))
         THEN /\ fs' = File(Overlay(EncodeNewlines(content), fs.data))
              /\ pc' = "print"
              /\ err' = err
         ELSE /\ fs' = File(orig.data)
              /\ pc' = "failed"
              /\ err' = "OSError"
    /\ lastWriter' = "script"
    /\ UNCHANGED <<content, i, applied, stdout, readDoc>>
    /\ UNCHANGED <<run, orig, extWrites, extData, extDuringWrite>>

\* f.write(content) and the close at the end of the with block
WriteBack ==
    /\ pc = "write"
    /\ \E n \in WriteOutcomes(EncodeNewlines(content)) :
         /\ fs' = File(Overlay(SubSeq(EncodeNewlines(content), 1, n), fs.data))
         /\ IF n = Len(EncodeNewlines(content))
            THEN pc' = "print" /\ err' = err
            ELSE pc' = "failed" /\ err' = "OSError"
    /\ lastWriter' = "script"
    /\ UNCHANGED <<content, i, applied, stdout, readDoc>>
    /\ UNCHANGED <<run, orig, extWrites, extData, extDuringWrite>>

\* print("Fixed all authService calls for admin access")
PrintDone ==
    /\ pc = "print"
    /\ stdout' = Append(stdout, ConfirmationLine)
    /\ pc' = "done"
    /\ UNCHANGED <<fs, content, i, applied, err, readDoc>>
    /\ UNCHANGED history

\* The script is invoked again on the file a successful run left.
Rerun ==
    /\ pc = "done"
    /\ run < MaxRuns
    /\ run' = run + 1
    /\ orig' = fs
    /\ pc' = "start"
    /\ content' = <<>>
    /\ readDoc' = <<>>
    /\ i' = 0
    /\ applied' = {}
    /\ stdout' = <<>>
    /\ err' = "none"
    /\ UNCHANGED <<fs, extWrites, extData, extDuringWrite, lastWriter>>

Next == OpenRead \/ Transform \/ OpenWrite \/ WriteBack \/ PrintDone \/ Rerun

Spec == Init /\ [][Next]_vars

-----------------------------------------------------------------------------
(* The same script with the rule list permuted: the loop takes the rules   *)
(* in any order, each once.                                                *)

\* for old, new in <any permutation of replacements>: content = content.replace(old, new)
TransformAny ==
    /\ pc = "loop"
    /\ \E k \in (1..NumRules) \ applied :
         /\ content' = Replace(content, replacements[k][1], replacements[k][2])
         /\ applied' = applied \cup {k}
         /\ i' = i + 1
         /\ pc' = IF applied' = 1..NumRules THEN "open_w" ELSE "loop"
    /\ UNCHANGED <<fs, stdout, err, readDoc>>
    /\ UNCHANGED history

\* The documents of the permuted runs: the eight match texts, and a match text
\* split around another one.
OrderFragments ==
    { GetUserDisplayName, GetUserRoleDisplayName, HasPermissionCitizenCreate,
      HasRoleSystemAdministrator, HasRoleRegistrationOfficer,
      HasRoleFieldEnumerator, HasRoleElectoralCommissioner, HasRoleAdmin,
      <<"a","u","t","h","S","e","r","v","i","c","e",".","h","a","s","R","o","l","e","(","'","a","d">>
        \o HasRoleSystemAdministrator \o <<"m","i","n","'",")">> }

OrderDocuments == DocsOfFrags(OrderFragments, MaxFragsAnyOrder)

InitAnyOrder ==
    /\ fs \in { File(d) : d \in OrderDocuments }
    /\ pc = "start"
    /\ content = <<>>
    /\ i = 0
    /\ applied = {}
    /\ stdout = <<>>
    /\ err = "none"
    /\ run = 1
    /\ orig = fs
    /\ readDoc = <<>>
    /\ extWrites = 0
    /\ extData = <<>>
    /\ extDuringWrite = FALSE
    /\ lastWriter = "none"

NextAnyOrder == OpenRead \/ TransformAny \/ OpenWrite \/ WriteBack \/ PrintDone

SpecAnyOrder == InitAnyOrder /\ [][NextAnyOrder]_vars

-----------------------------------------------------------------------------
(* The script running while another process writes the same path: the      *)
(* script takes no lock and never compares the file with what it read.     *)

RaceDocuments ==
    { HasRoleAdmin,
      <<"i","f"," ","(">> \o HasPermissionCitizenCreate \o <<")">> \o CRLF,
      <<"a","u","t","h","S","e","r","v","i","c","e",".","l","o","g","o","u","t","(",")">> }

InitRace ==
    /\ fs \in { File(d) : d \in RaceDocuments }
    /\ pc = "start"
    /\ content = <<>>
    /\ i = 0
    /\ applied = {}
    /\ stdout = <<>>
    /\ err = "none"
    /\ run = 1
    /\ orig = fs
    /\ readDoc = <<>>
    /\ extWrites = 0
    /\ extData = <<>>
    /\ extDuringWrite = FALSE
    /\ lastWriter = "none"

\* Another process replaces the content of the target file.
ExternalWrite ==
    /\ extWrites < MaxExt
    /\ \E d \in ExtDocuments :
         /\ fs' = File(d)
         /\ extData' = d
    /\ extWrites' = extWrites + 1
    /\ extDuringWrite' = (extDuringWrite \/ pc = "write")
    /\ lastWriter' = "external"
    /\ UNCHANGED <<pc, content, i, applied, stdout, err, run, orig, readDoc>>

NextRace == OpenRead \/ Transform \/ OpenWrite \/ WriteBack \/ PrintDone \/ ExternalWrite

SpecRace == InitRace /\ [][NextRace]_vars

-----------------------------------------------------------------------------
(* Reference definitions the properties are stated with.                   *)

\* t occurs in s at position p
OccursAt(s, t, p) == p >= 1 /\ p + Len(t) - 1 <= Len(s) /\ SubSeq(s, p, p + Len(t) - 1) = t

Occurrences(s, t) == { p \in 1..Len(s) : OccursAt(s, t, p) }

Contains(s, t) == Occurrences(s, t) # {}

MatchText(k) == replacements[k][1]

\* The replacement literals as the specification names them: rules 1 and 2
\* give "System Administrator" (with its quotes), the others give true.
StatedReplacement(k) ==
    IF k <= 2
    THEN <<"\"","S","y","s","t","e","m"," ","A","d","m","i","n","i","s","t","r","a","t","o","r","\"">>
    ELSE <<"t","r","u","e">>

Rules == 1..Len(replacements)

NoMatch(s) == \A k \in Rules : ~Contains(s, MatchText(k))

RECURSIVE RefReplaceAll(_, _, _)
\* Replace-all by its definition: the leftmost occurrence is replaced, and
\* the text after it is treated the same way.
RefReplaceAll(s, old, new) ==
    LET occ == Occurrences(s, old) IN
    IF occ = {} THEN s
    ELSE LET p == CHOOSE x \in occ : \A y \in occ : x <= y IN
         SubSeq(s, 1, p - 1) \o new \o RefReplaceAll(SubSeq(s, p + Len(old), Len(s)), old, new)

RECURSIVE RefApply(_, _)
\* Rules 1..k applied one after another, each once.
RefApply(s, k) ==
    IF k = 0 THEN s
    ELSE RefReplaceAll(RefApply(s, k - 1), replacements[k][1], replacements[k][2])

RECURSIVE Simultaneous(_, _)
\* One pass over s: where a match text stands its stated replacement is
\* emitted, every other character is copied.
Simultaneous(s, p) ==
    IF p > Len(s) THEN <<>>
    ELSE LET here == { k \in Rules : OccursAt(s, MatchText(k), p) } IN
         IF here = {} THEN <<s[p]>> \o Simultaneous(s, p + 1)
         ELSE LET k == CHOOSE x \in here : TRUE IN
              StatedReplacement(k) \o Simultaneous(s, p + Len(MatchText(k)))

RECURSIVE ListOrder(_, _)
\* The script's loop on s: rules 1..k in list order.
ListOrder(s, k) ==
    IF k = 0 THEN s
    ELSE Replace(ListOrder(s, k - 1), replacements[k][1], replacements[k][2])

IsStrictPrefix(a, b) == Len(a) < Len(b) /\ SubSeq(b, 1, Len(a)) = a

IOErrors == {"FileNotFoundError", "PermissionError", "OSError"}

Letters ==
    {"a","b","c","d","e","f","g","h","i","j","k","l","m","n","o","p","q","r","s","t","u","v","w","x","y","z",
     "A","B","C","D","E","F","G","H","I","J","K","L","M","N","O","P","Q","R","S","T","U","V","W","X","Y","Z"}

AuthServiceDot == <<"a","u","t","h","S","e","r","v","i","c","e",".">>

\* s holds the text authService. followed by a method name and a
\* parenthesised argument list
HasAuthServiceCall(s) ==
    \E p \in Occurrences(s, AuthServiceDot) :
      \E q \in (p + Len(AuthServiceDot) + 1)..Len(s) :
        /\ s[q] = "("
        /\ \A k \in (p + Len(AuthServiceDot))..(q - 1) : s[k] \in Letters
        /\ \E c \in (q + 1)..Len(s) :
             /\ s[c] = ")"
             /\ \A k \in (q + 1)..(c - 1) : s[k] \notin {"(", ")", "\n"}

-----------------------------------------------------------------------------
C3_ZeroMatchLeavesFileUnchanged ==
    (pc = "done" /\ NoMatch(orig.data)) =>
      /\ fs.data = orig.data
      /\ stdout = <<ConfirmationLine>>
      /\ err = "none"

(* C4: a second run on the file a first successful run produced leaves the *)
(* content as it was, and the output of a run holds no match text.         *)
C4_SecondRunIsNoOp ==
    pc = "done" =>
      /\ NoMatch(fs.data)
      /\ run >= 2 => fs.data = orig.data

C4_Witness ==
    /\ pc = "done"
    /\ run = 2
    /\ Contains(orig.data, TrueLit)

(* C5: when the target path does not exist at invocation, the run ends at  *)
(* the read step with a file-not-found error: the file is not created, the *)
(* write step is not reached and nothing is printed.                       *)
C5_MissingFileAbortsAtRead ==
    ~orig.exists =>
      /\ pc \in {"start", "failed"}
      /\ pc = "failed" => err = "FileNotFoundError"
      /\ ~fs.exists
      /\ stdout = <<>>
      /\ lastWriter = "none"

C5_Witness == ~orig.exists /\ pc = "failed" /\ err = "FileNotFoundError"

(* C6: the confirmation line is printed at most once, only after the read, *)
(* all eight replacements and the write-back have completed, exactly once  *)
(* by a run that completes, and never by a run that aborts; an aborted run *)
(* takes no further step.                                                  *)
C6_ConfirmationOnlyAfterSuccess ==
    /\ stdout # <<>> =>
         /\ stdout = <<ConfirmationLine>>
         /\ pc = "done"
         /\ err = "none"
         /\ applied = Rules
         /\ lastWriter = "script"
         /\ fs.data = EncodeNewlines(content)
    /\ pc = "done" => stdout = <<ConfirmationLine>>
    /\ pc = "failed" => stdout = <<>> /\ err \in IOErrors /\ ~ENABLED Next

C6_Witness == pc = "failed" /\ err = "OSError" /\ run = 1

(* C7: a write failure after the file was opened for writing leaves the    *)
(* run aborted and the file holding neither the original document nor the  *)
(* transformed one: it is empty or a strict prefix of the transformed text.*)
C7_FailedWriteLosesOriginal ==
    (pc = "failed" /\ err = "OSError") =>
      /\ fs.exists
      /\ fs.data # orig.data
      /\ fs.data # EncodeNewlines(content)
      /\ IsStrictPrefix(fs.data, EncodeNewlines(content))
      /\ stdout = <<>>

C7_Witness ==
    /\ pc = "failed"
    /\ err = "OSError"
    /\ fs.data # <<>>
    /\ content # readDoc

(* C9: after a successful run the written document holds no authService    *)
(* call.                                                                   *)
C9_NoAuthServiceCallRemains ==
    pc = "done" => ~HasAuthServiceCall(fs.data)

(* C8: the script neither locks the file nor notices a change: a write by  *)
(* another process between the script's read and its write is overwritten  *)
(* by the transformation of the text read earlier, and a write by another  *)
(* process after the script's write stays; the run reports success.        *)
C8_LastWriterWins ==
    (pc = "done" /\ ~extDuringWrite) =>
      /\ err = "none"
      /\ stdout = <<ConfirmationLine>>
      /\ IF lastWriter = "script"
         THEN fs.data = EncodeNewlines(RefApply(readDoc, Len(replacements)))
         ELSE fs.data = extData

\* the external write landed between the read and the write and is lost
C8_Witness ==
    /\ pc = "done"
    /\ extWrites > 0
    /\ ~extDuringWrite
    /\ lastWriter = "script"
    /\ readDoc # DecodeNewlines(extData)
    /\ fs.data # RefApply(DecodeNewlines(extData), Len(replacements))
    /\ fs.data # extData

\* No match text occurs in another, and no end of a match text is the start
\* of a match text.
MatchTextsDisjoint ==
    /\ \A j, k \in Rules : j # k => ~Contains(MatchText(j), MatchText(k))
    /\ \A j, k \in Rules : \A n \in 1..(Len(MatchText(j)) - 1) :
         ~IsStrictPrefix(SubSeq(MatchText(j), Len(MatchText(j)) - n + 1, Len(MatchText(j))), MatchText(k))

(* C10: the result does not depend on the order of the eight rules: no     *)
(* match text occurs in another, no two match texts overlap, and applying  *)
(* the rules in any permutation gives what the list order gives.           *)
C10_AnyOrderSameResult ==
    /\ pc = "start" => MatchTextsDisjoint
    /\ pc \in {"open_w", "write", "print", "done"} =>
         content = ListOrder(readDoc, Len(replacements))
    /\ pc = "done" => fs.data = EncodeNewlines(ListOrder(readDoc, Len(replacements)))

\* rules 8 and 4 were applied first, and both acted
C10_Witness ==
    /\ pc = "loop"
    /\ applied = {4, 8}
    /\ Contains(readDoc, HasRoleAdmin)
    /\ Contains(readDoc, HasRoleSystemAdministrator)
    /\ ~Contains(content, HasRoleAdmin)
    /\ ~Contains(content, HasRoleSystemAdministrator)

====
